---- MODULE Spec2Model ----
(***************************************************************************)
(* Model of Prime.c: a dispatcher (main) that partitions [0, ULONG_MAX)    *)
(* over one worker thread per CPU core, the worker loop                     *)
(* (PrimeNumberGenerator), the trial-division test (IsPrimeNumber) and the  *)
(* SIGQUIT handler (handleQuitSignal).                                      *)
(*                                                                          *)
(* unsigned long and size_t range over 0 .. ULONG_MAX and their arithmetic  *)
(* is reduced modulo ULONG_MAX + 1; ssize_t is the signed type of the same  *)
(* width, whose largest value is SSIZE_MAX.                                 *)
(***************************************************************************)
EXTENDS Integers, Sequences, FiniteSets, TLC

\* ---- bounds of the model ------------------------------------------------
ULONG_MAX == 15
MaxCores == 2

\* ---- constants of the program and of its platform ------------------------
EXIT_SUCCESS == 0
EXIT_FAILURE == 1
EINVAL == 22
ESRCH == 3
EAGAIN == 11
SIGQUIT == 3
SIGSEGV == 11
SysconfError == -1

Modulus == ULONG_MAX + 1
SIZE_MAX == ULONG_MAX
SSIZE_MAX == ULONG_MAX \div 2

\* conversion of a signed value to the unsigned type of the same width
ToUnsigned(x) == x % Modulus

Workers == 0 .. (MaxCores - 1)

\* values sysconf(_SC_NPROCESSORS_ONLN) can return: -1 on error, else a count.
\* The long it returns is compared with EINVAL before any conversion
SysconfResults == {SysconfError, EINVAL} \cup (1 .. MaxCores)

\* errors pthread_join can report
JoinErrors == {ESRCH}

\* ---- pure functions -------------------------------------------------------

\* the for loop of IsPrimeNumber from denominator denom on
RECURSIVE TrialDivision(_, _)
TrialDivision(num, denom) ==
    IF denom < num
    THEN IF num % denom = 0 THEN 0 ELSE TrialDivision(num, denom + 1)
    ELSE 1

\* the test with its loop started at 3
IsPrimeNumberFrom3(num) == TrialDivision(num, 3)

IsPrimeNumber(num) == TrialDivision(num, 2)

\* the digits of num, least significant first
RECURSIVE FormatLuReversed(_)
FormatLuReversed(num) ==
    IF num < 10 THEN <<num>> ELSE <<num % 10>> \o FormatLuReversed(num \div 10)

\* fprintf(outputFile, "%lu\n", num): the decimal digits of num, most
\* significant first (the line terminator is implied by the line itself)
RECURSIVE FormatLu(_)
FormatLu(num) ==
    IF num < 10 THEN <<num>> ELSE Append(FormatLu(num \div 10), num % 10)

\* the start of a range with the multiplication done before the division
BeginCalculationsAtMulFirst(iter, n) ==
    ((ULONG_MAX * iter) % Modulus) \div ToUnsigned(n)

\* lines 96-101: the assignment of worker iter out of n
BeginCalculationsAt(iter, n) ==
    ((ULONG_MAX \div ToUnsigned(n)) * iter) % Modulus

\* line 99, and the same with a range one too long and one too short
EndCalculationsAtOverlap(iter, n) ==
    (BeginCalculationsAt(iter, n) + (ULONG_MAX \div ToUnsigned(n)) + 1) % Modulus

EndCalculationsAtShort(iter, n) ==
    (BeginCalculationsAt(iter, n) + (ULONG_MAX \div ToUnsigned(n)) - 1) % Modulus

EndCalculationsAt(iter, n) ==
    (BeginCalculationsAt(iter, n) + (ULONG_MAX \div ToUnsigned(n))) % Modulus

ThreadArguments(iter, n) ==
    [ threadNum |-> iter + 1,
      cpuCoreNum |-> iter + 1,
      beginCalculationsAt |-> BeginCalculationsAt(iter, n),
      endCalculationsAt |-> EndCalculationsAt(iter, n),
      outputFileName |-> iter ]

NoArguments ==
    [ threadNum |-> 0, cpuCoreNum |-> 0, beginCalculationsAt |-> 0,
      endCalculationsAt |-> 0, outputFileName |-> 0 ]

\* void handleQuitSignal(int sig): the value it stores in the flag, and the
\* one of a handler that flips the flag
handleQuitSignalToggle(sig, flag) == 1 - flag

handleQuitSignal(sig, flag) == 1

\* ---- state ----------------------------------------------------------------
VARIABLES
    \* main
    pc,                 \* position of main
    result,             \* int result
    iter,               \* size_t iter
    numberOfCpuCores,   \* ssize_t numberOfCpuCores
    threads,            \* pthread_t* threads (0 = never written since calloc)
    threadArguments,    \* struct ThreadArguments* threadArguments
    heap,               \* "none", "live" or "freed": the two calloc'ed arrays
    receivedQuitSignal, \* volatile int receivedQuitSignal
    sigquitAction,      \* disposition of SIGQUIT: "default" or "handler"
    procState,          \* "running", "exited" or "signaled"
    exitStatus,         \* exit status, or the terminating signal
    \* worker threads, by index
    wpc,                \* position of PrimeNumberGenerator
    num,                \* unsigned long num
    outputFile,         \* content of the destination: a sequence of lines
    fileOpen,           \* outputFile is an open FILE*
    cancelPending,      \* a pthread_cancel request not yet acted on
    quitSeen,           \* value of receivedQuitSignal read by the last loop test
    \* history of the run
    spawnFailedAt,      \* index whose launch failed, -1 if none
    cancelIdx,          \* workers launched before the failure that were
                        \* handed to pthread_cancel
    cancelOutside,      \* pthread_cancel was handed a threads[.] of another index
    joinFailed,         \* indices whose pthread_join returned an error
    joinOrder,          \* indices handed to pthread_join, in call order
    quitAtStart,        \* value of the flag when the worker started
    openFailed,         \* workers whose fopen failed
    linesAfterQuit,     \* lines each worker wrote while the flag was set
    \* harness of the pure functions
    hnum, hret,         \* argument and return value of IsPrimeNumber
    hcount, hassign     \* unit count and the assignments computed for it

mainVars == <<pc, result, iter, numberOfCpuCores, threads, threadArguments,
              heap, sigquitAction, procState, exitStatus>>
workerVars == <<wpc, num, outputFile, fileOpen, cancelPending, quitSeen>>
historyVars == <<spawnFailedAt, cancelIdx, cancelOutside, joinFailed, joinOrder, quitAtStart,
                 openFailed, linesAfterQuit>>
harnessVars == <<hnum, hret, hcount, hassign>>
programVars == <<mainVars, workerVars, historyVars, receivedQuitSignal>>
vars == <<programVars, harnessVars>>

Terminated == {"returned", "cancelled"}

Launched(i) == i \in Workers /\ wpc[i] # "none"

ProgramInit ==
    /\ pc = "start"
    /\ result = 0
    /\ iter = 0
    /\ numberOfCpuCores = 0
    /\ threads = [i \in Workers |-> 0]
    /\ threadArguments = [i \in Workers |-> NoArguments]
    /\ heap = "none"
    /\ receivedQuitSignal = 0
    /\ sigquitAction = "default"
    /\ procState = "running"
    /\ exitStatus = 0
    /\ wpc = [i \in Workers |-> "none"]
    /\ num = [i \in Workers |-> 0]
    /\ outputFile = [i \in Workers |-> << >>]
    /\ fileOpen = [i \in Workers |-> FALSE]
    /\ cancelPending = [i \in Workers |-> FALSE]
    /\ quitSeen = [i \in Workers |-> 0]
    /\ spawnFailedAt = -1
    /\ cancelIdx = {}
    /\ cancelOutside = FALSE
    /\ joinFailed = {}
    /\ joinOrder = <<>>
    /\ quitAtStart = [i \in Workers |-> 0]
    /\ openFailed = {}
    /\ linesAfterQuit = [i \in Workers |-> 0]

HarnessIdle ==
    /\ hnum = 0
    /\ hret = -1
    /\ hcount = 1
    /\ hassign = << >>

Init == ProgramInit /\ HarnessIdle

\* ---- main -------------------------------------------------------------------

\* err(EXIT_FAILURE, ...) and return from main both end the process
Exit(status) ==
    /\ procState' = "exited"
    /\ exitStatus' = status % 256

\* lines 49-51
MainStart ==
    /\ procState = "running" /\ pc = "start"
    /\ result' = EXIT_SUCCESS
    /\ receivedQuitSignal' = 0
    /\ pc' = "sigaction"
    /\ UNCHANGED <<iter, numberOfCpuCores, threads, threadArguments, heap,
                   sigquitAction, procState, exitStatus>>
    /\ UNCHANGED <<workerVars, historyVars, harnessVars>>

SigactionSkipped ==
    /\ procState = "running" /\ pc = "sigaction"
    /\ pc' = "sysconf"
    /\ UNCHANGED <<result, iter, numberOfCpuCores, threads, threadArguments,
                   heap, sigquitAction, procState, exitStatus>>
    /\ UNCHANGED <<workerVars, historyVars, harnessVars, receivedQuitSignal>>

\* lines 53-59, sigaction succeeds: handleQuitSignal is installed
SigactionOk ==
    /\ procState = "running" /\ pc = "sigaction"
    /\ sigquitAction' = "handler"
    /\ pc' = "sysconf"
    /\ UNCHANGED <<result, iter, numberOfCpuCores, threads, threadArguments,
                   heap, procState, exitStatus>>
    /\ UNCHANGED <<workerVars, historyVars, harnessVars, receivedQuitSignal>>

\* lines 56-59, sigaction returns -1
SigactionFail ==
    /\ procState = "running" /\ pc = "sigaction"
    /\ Exit(EXIT_FAILURE)
    /\ UNCHANGED <<pc, result, iter, numberOfCpuCores, threads,
                   threadArguments, heap, sigquitAction>>
    /\ UNCHANGED <<workerVars, historyVars, harnessVars, receivedQuitSignal>>

\* lines 66-71
Sysconf(count) ==
    /\ procState = "running" /\ pc = "sysconf"
    /\ numberOfCpuCores' = count
    /\ IF EINVAL = count
       THEN Exit(EXIT_FAILURE) /\ UNCHANGED pc
       ELSE pc' = "calloc" /\ UNCHANGED <<procState, exitStatus>>
    /\ UNCHANGED <<result, iter, threads, threadArguments, heap, sigquitAction>>
    /\ UNCHANGED <<workerVars, historyVars, harnessVars, receivedQuitSignal>>

\* lines 73-74 and 91, both allocations succeed.  The count is converted to
\* size_t; no object can be larger than SSIZE_MAX bytes
CallocOk ==
    /\ procState = "running" /\ pc = "calloc"
    /\ ToUnsigned(numberOfCpuCores) <= SSIZE_MAX
    /\ heap' = "live"
    /\ threads' = [i \in Workers |-> 0]
    /\ threadArguments' = [i \in Workers |-> NoArguments]
    /\ iter' = 0
    /\ pc' = "launch"
    /\ UNCHANGED <<result, numberOfCpuCores, sigquitAction, procState, exitStatus>>
    /\ UNCHANGED <<workerVars, historyVars, harnessVars, receivedQuitSignal>>

\* lines 73-89, an allocation fails
CallocFail ==
    /\ procState = "running" /\ pc = "calloc"
    /\ Exit(EXIT_FAILURE)
    /\ UNCHANGED <<pc, result, iter, numberOfCpuCores, threads,
                   threadArguments, heap, sigquitAction>>
    /\ UNCHANGED <<workerVars, historyVars, harnessVars, receivedQuitSignal>>

\* the thread started by pthread_create for index i
StartThread(i) ==
    /\ wpc' = [wpc EXCEPT ![i] = "fopen"]
    /\ UNCHANGED <<num, outputFile, fileOpen, cancelPending, quitSeen>>

\* lines 91-109, every call of the body returns 0
LaunchOk ==
    /\ procState = "running" /\ pc = "launch"
    /\ iter < ToUnsigned(numberOfCpuCores)
    /\ threadArguments' = [threadArguments EXCEPT
                             ![iter] = ThreadArguments(iter, numberOfCpuCores)]
    /\ threads' = [threads EXCEPT ![iter] = iter + 1]
    /\ StartThread(iter)
    /\ result' = 0
    /\ iter' = (iter + 1) % Modulus
    /\ UNCHANGED <<pc, numberOfCpuCores, heap, sigquitAction, procState, exitStatus>>
    /\ UNCHANGED <<historyVars, harnessVars, receivedQuitSignal>>

\* lines 91-111, pthread_create returns an error code: no thread is started
\* and threads[iter] keeps the 0 of calloc
LaunchFail(code) ==
    /\ procState = "running" /\ pc = "launch"
    /\ iter < ToUnsigned(numberOfCpuCores)
    /\ threadArguments' = [threadArguments EXCEPT
                             ![iter] = ThreadArguments(iter, numberOfCpuCores)]
    /\ result' = code
    /\ spawnFailedAt' = iter
    /\ pc' = "rollback"
    /\ UNCHANGED <<iter, numberOfCpuCores, threads, heap, sigquitAction,
                   procState, exitStatus>>
    /\ UNCHANGED <<cancelIdx, cancelOutside, joinFailed, joinOrder, quitAtStart,
                   openFailed, linesAfterQuit>>
    /\ UNCHANGED <<workerVars, harnessVars, receivedQuitSignal>>

\* size_t --iter
Decrement(i) == (i + Modulus - 1) % Modulus

\* line 115: pthread_cancel is called on threads[index]
CancelCalled(index) ==
    IF index < spawnFailedAt
    THEN cancelIdx' = cancelIdx \cup {index} /\ UNCHANGED cancelOutside
    ELSE cancelOutside' = TRUE /\ UNCHANGED cancelIdx

\* lines 113-124, one turn of while(--iter >= 0) whose pthread_cancel returns.
\* threads[iter] of a launched worker is a valid handle and the request is
\* left pending; any other threads[iter] (read outside the array, or never
\* written) is no thread, and the call returns ESRCH
RollbackStep ==
    /\ procState = "running" /\ pc = "rollback"
    /\ LET next == Decrement(iter) IN
       IF next >= 0
       THEN /\ iter' = next
            /\ CancelCalled(next)
            /\ IF Launched(next)
               THEN /\ cancelPending' = [cancelPending EXCEPT
                          ![next] = wpc[next] \notin Terminated]
                    /\ result' = 0
               ELSE /\ result' = ESRCH
                    /\ UNCHANGED cancelPending
            /\ UNCHANGED pc
       ELSE /\ iter' = next
            /\ result' = EXIT_FAILURE
            /\ pc' = "free"
            /\ UNCHANGED <<cancelIdx, cancelOutside, cancelPending>>
    /\ UNCHANGED <<numberOfCpuCores, threads, threadArguments, heap,
                   sigquitAction, procState, exitStatus>>
    /\ UNCHANGED <<wpc, num, outputFile, fileOpen, quitSeen>>
    /\ UNCHANGED <<spawnFailedAt, joinFailed, joinOrder, quitAtStart,
                   openFailed, linesAfterQuit>>
    /\ UNCHANGED <<harnessVars, receivedQuitSignal>>

\* lines 113-115, a turn whose threads[iter] is no thread and whose read, or
\* whose pthread_cancel, faults: the process dies of SIGSEGV
RollbackCrash ==
    /\ procState = "running" /\ pc = "rollback"
    /\ LET next == Decrement(iter) IN
       /\ next >= 0
       /\ ~Launched(next)
       /\ iter' = next
       /\ CancelCalled(next)
    /\ procState' = "signaled"
    /\ exitStatus' = SIGSEGV
    /\ UNCHANGED <<pc, result, numberOfCpuCores, threads, threadArguments,
                   heap, sigquitAction>>
    /\ UNCHANGED workerVars
    /\ UNCHANGED <<spawnFailedAt, joinFailed, joinOrder, quitAtStart,
                   openFailed, linesAfterQuit>>
    /\ UNCHANGED <<harnessVars, receivedQuitSignal>>

\* lines 91 and 128-130: the launch loop ends without a failure
LaunchDone ==
    /\ procState = "running" /\ pc = "launch"
    /\ ~(iter < ToUnsigned(numberOfCpuCores))
    /\ IF EXIT_FAILURE # result
       THEN pc' = "join" /\ iter' = 0
       ELSE pc' = "free" /\ UNCHANGED iter
    /\ UNCHANGED <<result, numberOfCpuCores, threads, threadArguments, heap,
                   sigquitAction, procState, exitStatus>>
    /\ UNCHANGED <<workerVars, historyVars, harnessVars, receivedQuitSignal>>

JoinConditionStopOnError ==
    /\ iter < ToUnsigned(numberOfCpuCores)
    /\ threads[iter] # 0
    /\ joinFailed = {}

\* line 130, the condition of the join loop
JoinCondition ==
    /\ iter < ToUnsigned(numberOfCpuCores)
    /\ threads[iter] # 0

\* lines 130-132, pthread_join returns 0: the worker has terminated
JoinOk ==
    /\ procState = "running" /\ pc = "join"
    /\ JoinCondition
    /\ wpc[iter] \in Terminated
    /\ result' = 0
    /\ joinOrder' = Append(joinOrder, iter)
    /\ iter' = (iter + 1) % Modulus
    /\ UNCHANGED <<pc, numberOfCpuCores, threads, threadArguments, heap,
                   sigquitAction, procState, exitStatus>>
    /\ UNCHANGED <<spawnFailedAt, cancelIdx, cancelOutside, joinFailed, quitAtStart,
                   openFailed, linesAfterQuit>>
    /\ UNCHANGED <<workerVars, harnessVars, receivedQuitSignal>>

\* result = pthread_join(...): the value left in result
JoinResult(old, code) == code

\* lines 130-137, pthread_join returns an error, without waiting
JoinFail(code) ==
    /\ procState = "running" /\ pc = "join"
    /\ JoinCondition
    /\ result' = JoinResult(result, code)
    /\ joinFailed' = joinFailed \cup {iter}
    /\ joinOrder' = Append(joinOrder, iter)
    /\ iter' = (iter + 1) % Modulus
    /\ UNCHANGED <<pc, numberOfCpuCores, threads, threadArguments, heap,
                   sigquitAction, procState, exitStatus>>
    /\ UNCHANGED <<spawnFailedAt, cancelIdx, cancelOutside, quitAtStart, openFailed,
                   linesAfterQuit>>
    /\ UNCHANGED <<workerVars, harnessVars, receivedQuitSignal>>

\* line 130, the join loop ends
JoinDone ==
    /\ procState = "running" /\ pc = "join"
    /\ ~JoinCondition
    /\ pc' = "free"
    /\ UNCHANGED <<result, iter, numberOfCpuCores, threads, threadArguments,
                   heap, sigquitAction, procState, exitStatus>>
    /\ UNCHANGED <<workerVars, historyVars, harnessVars, receivedQuitSignal>>

\* lines 141-142
Free ==
    /\ procState = "running" /\ pc = "free"
    /\ heap' = "freed"
    /\ pc' = "return"
    /\ UNCHANGED <<result, iter, numberOfCpuCores, threads, threadArguments,
                   sigquitAction, procState, exitStatus>>
    /\ UNCHANGED <<workerVars, historyVars, harnessVars, receivedQuitSignal>>

\* line 144: returning from main ends the process and every thread in it
Return ==
    /\ procState = "running" /\ pc = "return"
    /\ Exit(result)
    /\ pc' = "done"
    /\ UNCHANGED <<result, iter, numberOfCpuCores, threads, threadArguments,
                   heap, sigquitAction>>
    /\ UNCHANGED <<workerVars, historyVars, harnessVars, receivedQuitSignal>>

\* ---- PrimeNumberGenerator ---------------------------------------------------

ThreadStep(i) == procState = "running" /\ i \in Workers

\* the branch taken on the result of fopen (lines 157 and 169), and the one
\* of a worker that does not test it
AfterFopenUnchecked(ok) == "loop"

AfterFopen(ok) == IF ok THEN "loop" ELSE "returned"

\* lines 154-159: fopen(outputFileName, "w") creates or truncates the
\* destination (ok), or returns NULL; num starts at beginCalculationsAt
WorkerOpen(i, ok) ==
    /\ ThreadStep(i) /\ wpc[i] = "fopen"
    /\ quitAtStart' = [quitAtStart EXCEPT ![i] = receivedQuitSignal]
    /\ wpc' = [wpc EXCEPT ![i] = AfterFopen(ok)]
    /\ num' = [num EXCEPT ![i] = IF AfterFopen(ok) = "loop"
                                 THEN threadArguments[i].beginCalculationsAt
                                 ELSE @]
    /\ IF ok
       THEN /\ outputFile' = [outputFile EXCEPT ![i] = << >>]
            /\ fileOpen' = [fileOpen EXCEPT ![i] = TRUE]
            /\ UNCHANGED openFailed
       ELSE /\ openFailed' = openFailed \cup {i}
            /\ UNCHANGED <<outputFile, fileOpen>>
    /\ UNCHANGED <<cancelPending, quitSeen>>
    /\ UNCHANGED <<spawnFailedAt, cancelIdx, cancelOutside, joinFailed, joinOrder,
                   linesAfterQuit>>
    /\ UNCHANGED <<mainVars, harnessVars, receivedQuitSignal>>

\* the loop test of line 159, and two ways of getting it wrong
LoopConditionNoFlag(n, end, flag) == n < end

LoopConditionInclusive(n, end, flag) == n <= end /\ flag = 0

LoopCondition(n, end, flag) == n < end /\ flag = 0

\* line 159: the loop test.  The flag is read only when num < end
WorkerLoop(i) ==
    /\ ThreadStep(i) /\ wpc[i] = "loop"
    /\ LET end == threadArguments[i].endCalculationsAt IN
       /\ quitSeen' = [quitSeen EXCEPT
                         ![i] = IF num[i] < end THEN receivedQuitSignal ELSE @]
       /\ wpc' = [wpc EXCEPT
                    ![i] = IF LoopCondition(num[i], end, receivedQuitSignal)
                           THEN "body" ELSE "fclose"]
    /\ UNCHANGED <<num, outputFile, fileOpen, cancelPending>>
    /\ UNCHANGED <<mainVars, historyVars, harnessVars, receivedQuitSignal>>

\* lines 161-164 and num++
WorkerBody(i) ==
    /\ ThreadStep(i) /\ wpc[i] = "body"
    /\ IF IsPrimeNumber(num[i]) = 1
       THEN /\ outputFile' = [outputFile EXCEPT ![i] = Append(@, FormatLu(num[i]))]
            /\ linesAfterQuit' = [linesAfterQuit EXCEPT
                                    ![i] = @ + receivedQuitSignal]
       ELSE UNCHANGED <<outputFile, linesAfterQuit>>
    /\ num' = [num EXCEPT ![i] = (@ + 1) % Modulus]
    /\ wpc' = [wpc EXCEPT ![i] = "loop"]
    /\ UNCHANGED <<fileOpen, cancelPending, quitSeen>>
    /\ UNCHANGED <<spawnFailedAt, cancelIdx, cancelOutside, joinFailed, joinOrder,
                   quitAtStart, openFailed>>
    /\ UNCHANGED <<mainVars, harnessVars, receivedQuitSignal>>

\* lines 167 and 175
WorkerClose(i) ==
    /\ ThreadStep(i) /\ wpc[i] = "fclose"
    /\ fileOpen' = [fileOpen EXCEPT ![i] = FALSE]
    /\ wpc' = [wpc EXCEPT ![i] = "returned"]
    /\ UNCHANGED <<num, outputFile, cancelPending, quitSeen>>
    /\ UNCHANGED <<mainVars, historyVars, harnessVars, receivedQuitSignal>>

\* fopen, fprintf and fclose are cancellation points
CancellationPoint(i) ==
    \/ wpc[i] = "fopen"
    \/ wpc[i] = "body" /\ IsPrimeNumber(num[i]) = 1
    \/ wpc[i] = "fclose"

\* a pending pthread_cancel request is acted on at a cancellation point:
\* the thread ends there, without running the rest of the function
WorkerCancelled(i) ==
    /\ ThreadStep(i) /\ cancelPending[i]
    /\ CancellationPoint(i)
    /\ wpc' = [wpc EXCEPT ![i] = "cancelled"]
    /\ cancelPending' = [cancelPending EXCEPT ![i] = FALSE]
    /\ UNCHANGED <<num, outputFile, fileOpen, quitSeen>>
    /\ UNCHANGED <<mainVars, historyVars, harnessVars, receivedQuitSignal>>

\* a read of *threadArgs (lines 155 and 159) after main has freed the array
\* either still finds the values, as in WorkerOpen and WorkerLoop, or faults
WorkerFault(i) ==
    /\ ThreadStep(i) /\ wpc[i] \in {"fopen", "loop"}
    /\ heap = "freed"
    /\ procState' = "signaled"
    /\ exitStatus' = SIGSEGV
    /\ UNCHANGED <<pc, result, iter, numberOfCpuCores, threads,
                   threadArguments, heap, sigquitAction>>
    /\ UNCHANGED <<workerVars, historyVars, harnessVars, receivedQuitSignal>>

\* ---- SIGQUIT ------------------------------------------------------------------

\* a SIGQUIT delivered while the handler is installed (lines 147-150)
QuitHandled ==
    /\ procState = "running"
    /\ sigquitAction # "default"
    /\ receivedQuitSignal' = handleQuitSignal(SIGQUIT, receivedQuitSignal)
    /\ UNCHANGED <<mainVars, workerVars, historyVars, harnessVars>>

\* a SIGQUIT delivered while the disposition is the default one
QuitDefault ==
    /\ procState = "running"
    /\ sigquitAction = "default"
    /\ procState' = "signaled"
    /\ exitStatus' = SIGQUIT
    /\ UNCHANGED <<pc, result, iter, numberOfCpuCores, threads,
                   threadArguments, heap, sigquitAction>>
    /\ UNCHANGED <<workerVars, historyVars, harnessVars, receivedQuitSignal>>

\* ---- the program ----------------------------------------------------------------

Next ==
    \/ MainStart
    \/ SigactionOk
    \/ SigactionFail
    \/ \E c \in SysconfResults : Sysconf(c)
    \/ CallocOk
    \/ CallocFail
    \/ LaunchOk
    \/ LaunchFail(EAGAIN)
    \/ RollbackStep
    \/ RollbackCrash
    \/ LaunchDone
    \/ JoinOk
    \/ \E e \in JoinErrors : JoinFail(e)
    \/ JoinDone
    \/ Free
    \/ Return
    \/ \E i \in Workers, ok \in BOOLEAN : WorkerOpen(i, ok)
    \/ \E i \in Workers : WorkerLoop(i)
    \/ \E i \in Workers : WorkerBody(i)
    \/ \E i \in Workers : WorkerClose(i)
    \/ \E i \in Workers : WorkerCancelled(i)
    \/ \E i \in Workers : WorkerFault(i)
    \/ QuitHandled
    \/ QuitDefault

Spec == Init /\ [][Next]_vars

\* ---- the program under a fair scheduler --------------------------------------------
\* the steps of main (lines 36-145) and of one thread (lines 152-176); the
\* kernel runs every thread that can run, and the arrival of SIGQUIT is left
\* to the environment
main ==
    \/ MainStart
    \/ SigactionOk
    \/ SigactionFail
    \/ \E c \in SysconfResults : Sysconf(c)
    \/ CallocOk
    \/ CallocFail
    \/ LaunchOk
    \/ LaunchFail(EAGAIN)
    \/ RollbackStep
    \/ RollbackCrash
    \/ LaunchDone
    \/ JoinOk
    \/ \E e \in JoinErrors : JoinFail(e)
    \/ JoinDone
    \/ Free
    \/ Return

PrimeNumberGenerator(i) ==
    \/ \E ok \in BOOLEAN : WorkerOpen(i, ok)
    \/ WorkerLoop(i)
    \/ WorkerBody(i)
    \/ WorkerClose(i)
    \/ WorkerCancelled(i)
    \/ WorkerFault(i)

FairSpec ==
    /\ Spec
    /\ WF_vars(main)
    /\ \A i \in Workers : WF_vars(PrimeNumberGenerator(i))

\* ---- the pure functions on their own ----------------------------------------------
\* IsPrimeNumber is applied to every unsigned long, and the assignments of
\* lines 96-101 are computed for every positive count

PureInit ==
    /\ ProgramInit
    /\ hnum \in 0 .. ULONG_MAX
    /\ hret = -1
    /\ hcount \in 1 .. SSIZE_MAX
    /\ hassign = << >>

PrimeCall ==
    /\ hret = -1
    /\ hret' = IsPrimeNumber(hnum)
    /\ UNCHANGED <<hnum, hcount, hassign, programVars>>

\* one turn of the loop of line 91, lines 96-101 only
PartitionStep ==
    /\ Len(hassign) < ToUnsigned(hcount)
    /\ hassign' = Append(hassign, ThreadArguments(Len(hassign), hcount))
    /\ UNCHANGED <<hnum, hret, hcount, programVars>>

PureNext == PrimeCall \/ PartitionStep

SpecPure == PureInit /\ [][PureNext]_vars

\* ---- properties -----------------------------------------------------------------------

\* the number a line of decimal digits stands for
RECURSIVE ParseLu(_)
ParseLu(line) ==
    IF Len(line) = 0 THEN 0
    ELSE 10 * ParseLu(SubSeq(line, 1, Len(line) - 1)) + line[Len(line)]

\* the numbers on the lines of worker i's destination, in file order
WrittenNumbers(i) == [k \in 1 .. Len(outputFile[i]) |-> ParseLu(outputFile[i][k])]

\* the numbers of [begin, end) for which IsPrimeNumber returns 1, ascending
AcceptedIn(begin, end) ==
    SelectSeq([k \in 1 .. (IF end > begin THEN end - begin ELSE 0) |-> begin + k - 1],
              LAMBDA n : IsPrimeNumber(n) = 1)

HasDivisor(n) == \E d \in 2 .. (n - 1) : n % d = 0

\* the indices of the assignments in hassign whose range holds x
Owners(x) ==
    {i \in 1 .. Len(hassign) :
        hassign[i].beginCalculationsAt <= x /\ x < hassign[i].endCalculationsAt}

\* C1: when the launch of worker k fails, pthread_cancel is called on the
\* handles of workers 0..k-1 and on no other index, and the process ends with
\* a nonzero status, all of 0..k-1 having been cancelled.
C1_RollbackCancelsExactlyLaunched ==
    spawnFailedAt # -1 =>
        /\ ~cancelOutside
        /\ cancelIdx \subseteq 0 .. (spawnFailedAt - 1)
        /\ procState # "running" =>
              /\ cancelIdx = 0 .. (spawnFailedAt - 1)
              /\ exitStatus # 0

\* C2: main returns 0 when every launch and every join succeeded, and a
\* nonzero status when the join of any worker failed, whatever the joins
\* after it returned.
C2_ExitStatusReflectsJoins ==
    (procState = "exited" /\ pc = "done") =>
        /\ (spawnFailedAt = -1 /\ joinFailed = {}) => exitStatus = 0
        /\ joinFailed # {} => exitStatus # 0

\* C3: for every count >= 1 the loop computes at most one assignment per
\* index below count, each range is non-empty (begin < end), and the ranges
\* are ordered by index without overlap (end of i <= begin of every later j).
C3_PartitionDisjointOrdered ==
    /\ Len(hassign) <= hcount
    /\ \A i \in 1 .. Len(hassign) :
          /\ hassign[i].threadNum = i
          /\ hassign[i].beginCalculationsAt < hassign[i].endCalculationsAt
    /\ \A i, j \in 1 .. Len(hassign) :
          i < j => hassign[i].endCalculationsAt <= hassign[j].beginCalculationsAt

C3_Witness == hcount >= 3 /\ Len(hassign) = hcount

\* C4 as stated: once all assignments are computed, every number of
\* [0, ULONG_MAX) belongs to exactly one of them.
C4_ExactCover ==
    Len(hassign) = hcount =>
        \A x \in 0 .. (ULONG_MAX - 1) : Cardinality(Owners(x)) = 1

\* C4 as amended: once all assignments are computed, every number below
\* count * floor(ULONG_MAX / count) belongs to exactly one of them and every
\* number from there on to none; the last range ends ULONG_MAX mod count
\* short of ULONG_MAX.
C4_CoverUpToMultiple ==
    Len(hassign) = hcount =>
        LET covered == hcount * (ULONG_MAX \div hcount) IN
        /\ \A x \in 0 .. ULONG_MAX :
              Cardinality(Owners(x)) = IF x < covered THEN 1 ELSE 0
        /\ hassign[hcount].endCalculationsAt = ULONG_MAX - (ULONG_MAX % hcount)

C4_Witness ==
    /\ Len(hassign) = hcount
    /\ hcount > 1
    /\ ULONG_MAX % hcount # 0
    /\ Owners(ULONG_MAX - 1) = {}

\* C5: a worker that has returned after opening its destination, the flag
\* never having been set, has stopped at the end of its range, has closed the
\* destination and has written exactly the numbers of its range that
\* IsPrimeNumber accepts, each once, in ascending order.
C5_WorkerWritesExactlyItsPrimes ==
    \A i \in Workers :
        (wpc[i] = "returned" /\ i \notin openFailed /\ receivedQuitSignal = 0) =>
            /\ num[i] = threadArguments[i].endCalculationsAt
            /\ WrittenNumbers(i) = AcceptedIn(threadArguments[i].beginCalculationsAt,
                                              threadArguments[i].endCalculationsAt)
            /\ ~fileOpen[i]

C5_Witness ==
    /\ receivedQuitSignal = 0
    /\ \E i \in Workers :
          /\ wpc[i] = "returned" /\ i \notin openFailed
          /\ threadArguments[i].beginCalculationsAt > 0
          /\ Len(outputFile[i]) >= 2

\* C6: a worker whose first step finds the flag set never enters the loop
\* body and writes no line; once it has returned, its destination is closed.
C6_StartedCancelledWritesNothing ==
    \A i \in Workers :
        (Launched(i) /\ quitAtStart[i] = 1) =>
            /\ outputFile[i] = << >>
            /\ wpc[i] # "body"
            /\ wpc[i] = "returned" => ~fileOpen[i]

C6_Witness ==
    \E i \in Workers :
        quitAtStart[i] = 1 /\ wpc[i] = "returned" /\ i \notin openFailed

\* C7 as stated: no worker writes a line while the flag is set.
C7_NoWriteAfterSignal == \A i \in Workers : linesAfterQuit[i] = 0

\* C7 as amended: a worker writes a line only from the loop body, for a
\* candidate whose loop test read the flag as 0; the flag may have been set
\* since that test.
C7_WritesOnlyAfterPassedTest ==
    [][\A i \in Workers :
          outputFile'[i] # outputFile[i] => (wpc[i] = "body" /\ quitSeen[i] = 0)]_vars

C7_Witness == \E i \in Workers : linesAfterQuit[i] = 1 /\ quitSeen[i] = 1

\* C8: IsPrimeNumber(num) returns 0 exactly when some integer of [2, num)
\* divides num, and 1 otherwise; it returns 1 for 0 and for 1.
C8_IsPrimeNumberContract ==
    hret # -1 =>
        /\ hret \in {0, 1}
        /\ hret = 0 <=> HasDivisor(hnum)
        /\ hnum \in {0, 1} => hret = 1

C8_Witness == hret = 1 /\ hnum = 1

\* C9: a worker whose fopen failed has returned without touching its loop
\* variable or its destination; beside such a worker, every other worker that
\* returns with the flag never set has written its whole range; and when all
\* launches and joins succeeded main still returns 0.
C9_OpenFailureIsLocal ==
    /\ \A i \in openFailed :
          /\ wpc[i] = "returned"
          /\ outputFile[i] = << >>
          /\ num[i] = 0
          /\ ~fileOpen[i]
    /\ \A j \in Workers \ openFailed :
          (openFailed # {} /\ wpc[j] = "returned" /\ receivedQuitSignal = 0) =>
              WrittenNumbers(j) = AcceptedIn(threadArguments[j].beginCalculationsAt,
                                             threadArguments[j].endCalculationsAt)
    /\ (openFailed # {} /\ pc = "done" /\ joinFailed = {}) => exitStatus = 0

C9_Witness ==
    /\ pc = "done" /\ procState = "exited" /\ exitStatus = 0
    /\ receivedQuitSignal = 0
    /\ joinFailed = {}
    /\ openFailed = {0}
    /\ wpc[1] = "returned" /\ outputFile[1] # << >>

\* C10: no step of main, of the handler or of a worker takes
\* receivedQuitSignal from 1 back to 0.
C10_FlagMonotonic ==
    [][receivedQuitSignal = 1 => receivedQuitSignal' = 1]_vars

C10_Witness == receivedQuitSignal = 1 /\ pc = "done"

\* C11: a count that sysconf could not determine, or one below 1, never gets
\* past the check of lines 68-71: the process has then exited with a nonzero
\* status, nothing allocated and nothing launched; and the check ends the
\* process for no count of 1 or more.
C11_UnitCountCheck ==
    /\ pc \notin {"start", "sigaction", "sysconf"} => numberOfCpuCores >= 1
    /\ (pc = "sysconf" /\ procState = "exited") =>
          /\ numberOfCpuCores < 1
          /\ exitStatus # 0
          /\ heap = "none"
          /\ \A i \in Workers : ~Launched(i)

\* C12: under a fair scheduler every spawn failure, at whatever index, is
\* followed by the failed terminal state of main: the rollback loop of lines
\* 113-121 has ended, both arrays are released and main has returned.
C12_RollbackTerminates ==
    (spawnFailedAt # -1) ~> (pc = "done" /\ heap = "freed" /\ procState = "exited")

\* C13: whenever main has released the two arrays (lines 141-142) or has
\* returned (line 144), every worker it launched has terminated: none is still
\* running or still reading its thread_arguments_t.
C13_ReleaseAfterWorkersEnd ==
    (heap = "freed" \/ pc \in {"return", "done"}) =>
        \A i \in Workers : Launched(i) => wpc[i] \in Terminated

\* C14: when every launch succeeded, the join loop of lines 130-138 calls
\* pthread_join once for each of the numberOfCpuCores workers, in index order
\* 0, 1, ..., whatever the earlier joins returned: while the loop runs the
\* calls made so far are those of the indices below iter, and once it has
\* ended they are those of all the indices.
C14_EveryJoinAttemptedInOrder ==
    spawnFailedAt = -1 =>
        /\ pc \in {"start", "sigaction", "sysconf", "calloc", "launch"} => joinOrder = <<>>
        /\ pc = "join" => joinOrder = [k \in 1 .. iter |-> k - 1]
        /\ pc \in {"free", "return", "done"} =>
              joinOrder = [k \in 1 .. numberOfCpuCores |-> k - 1]

\* a join of the first worker failed and the later workers were joined all the same
C14_Witness ==
    /\ pc = "done"
    /\ numberOfCpuCores >= 2
    /\ 0 \in joinFailed
    /\ Len(joinOrder) = numberOfCpuCores

\* C15: under a fair scheduler, once receivedQuitSignal is 1 the run comes to
\* its end: main leaves its loops and the process exits, every worker having
\* stopped with at most the one candidate that was in progress written.
C15_QuitSignalEndsRun ==
    (receivedQuitSignal = 1) ~>
        (procState = "exited" /\ \A i \in Workers : linesAfterQuit[i] <= 1)

\* C16: whenever a worker exists, line 51 has set receivedQuitSignal to 0 and
\* sigaction (lines 53-59) has installed handleQuitSignal for SIGQUIT: no
\* worker reads the flag before both have happened.
C16_HandlerBeforeWorkers ==
    (\E i \in Workers : Launched(i)) =>
        /\ sigquitAction = "handler"
        /\ pc \notin {"start", "sigaction"}

\* a worker has read the flag in its loop test, and SIGQUIT has been handled
C16_Witness ==
    \E i \in Workers : wpc[i] = "body" /\ sigquitAction = "handler" /\ receivedQuitSignal = 1

\* C17: in every state, whether the worker runs, has returned, was stopped by
\* the flag or by pthread_cancel, the lines of its destination read as numbers
\* are strictly ascending, lie in its own range [beginCalculationsAt,
\* endCalculationsAt), and are an initial part of what it writes when it runs
\* to the end of the range.
C17_OutputIsAscendingPrefix ==
    \A i \in Workers :
        LET written == WrittenNumbers(i)
            full == AcceptedIn(threadArguments[i].beginCalculationsAt,
                               threadArguments[i].endCalculationsAt)
        IN  /\ Len(written) <= Len(full)
            /\ written = SubSeq(full, 1, Len(written))
            /\ \A k \in 1 .. Len(written) :
                  /\ threadArguments[i].beginCalculationsAt <= written[k]
                  /\ written[k] < threadArguments[i].endCalculationsAt
            /\ \A k \in 1 .. (Len(written) - 1) : written[k] < written[k + 1]

\* a worker stopped by the flag before the end of its range, with part of
\* its output written
C17_Witness ==
    \E i \in Workers :
        /\ wpc[i] = "returned" /\ quitSeen[i] = 1
        /\ num[i] < threadArguments[i].endCalculationsAt
        /\ Len(outputFile[i]) >= 2
        /\ Len(outputFile[i]) < Len(AcceptedIn(threadArguments[i].beginCalculationsAt,
                                               threadArguments[i].endCalculationsAt))

\* C18: for every count of 1 or more, each beginCalculationsAt and each
\* endCalculationsAt equals the exact product of floor(ULONG_MAX / count) and
\* the index, so the unsigned arithmetic of lines 98-99 never wraps; every
\* endCalculationsAt is at most ULONG_MAX, and the last one is short of
\* ULONG_MAX by ULONG_MAX mod count, which is at most count - 1.
C18_NoWrapAround ==
    LET share == ULONG_MAX \div hcount IN
    /\ \A i \in 1 .. Len(hassign) :
          /\ hassign[i].beginCalculationsAt = share * (i - 1)
          /\ hassign[i].endCalculationsAt = share * i
          /\ hassign[i].endCalculationsAt <= ULONG_MAX
    /\ Len(hassign) = hcount =>
          /\ ULONG_MAX - hassign[hcount].endCalculationsAt = ULONG_MAX % hcount
          /\ ULONG_MAX - hassign[hcount].endCalculationsAt <= hcount - 1

\* all the assignments of a count whose shortfall is the largest possible
C18_Witness ==
    /\ hcount >= 2
    /\ Len(hassign) = hcount
    /\ ULONG_MAX - hassign[hcount].endCalculationsAt = hcount - 1

\* C19: a worker that has terminated, by returning at the end of its range
\* or on the flag, or by acting on a pthread_cancel request of the rollback,
\* holds no open destination: every fopen that succeeded was followed by
\* fclose.
C19_DestinationClosedAtEnd ==
    \A i \in Workers : wpc[i] \in Terminated => ~fileOpen[i]

\* C20: a worker writes at most one line while receivedQuitSignal is 1, and it
\* enters the loop body for a candidate only by a loop test (line 161) made
\* while the flag was 0: the one line is that of the candidate already under
\* test when the flag was set.
C20_AtMostOneLineAfterSignal ==
    [][\A i \in Workers :
          /\ linesAfterQuit'[i] <= 1
          /\ (wpc[i] = "loop" /\ wpc'[i] = "body") => receivedQuitSignal = 0]_vars

\* a worker wrote the candidate in progress after the flag was set, then
\* stopped at its next loop test and closed its destination
C20_Witness ==
    \E i \in Workers :
        /\ linesAfterQuit[i] = 1
        /\ wpc[i] = "returned" /\ ~fileOpen[i]
        /\ num[i] < threadArguments[i].endCalculationsAt

====
